---- MODULE Spec2Model ----
(***************************************************************************)
(* Model of scipy/ndimage/src/nd_image.c: the wrapper layer between the    *)
(* Python caller and the ndimage kernels.  Arrays live in a small heap;    *)
(* NA_InputArray, NA_OutputArray and NA_IoArray coerce them, the Py_...    *)
(* wrappers parse their arguments one converter at a time, run the kernel  *)
(* and release what they hold at the exit label.                           *)
(***************************************************************************)
EXTENDS Integers, Sequences, FiniteSets, TLC

(* ------------------------------------------------------------------ *)
(* Bounds                                                              *)
(* ------------------------------------------------------------------ *)

\* largest logical element value an array buffer can hold
MaxVal == 1

\* largest max_label passed to find_objects
MaxLabel == 2

\* most calls a kernel makes through a trampoline in one run
MaxCalls == 2

Vals == 0..MaxVal

(* ------------------------------------------------------------------ *)
(* Objects                                                             *)
(* ------------------------------------------------------------------ *)

\* the caller's arrays
CallerArrays == {"A1", "A2"}

\* heap slots for temporaries created with NPY_ARRAY_UPDATEIFCOPY
ShadowIds == {"S1", "S2"}

ArrayIds == CallerArrays \cup ShadowIds

\* requirements every NI_ObjectTo...Array converter passes
NI_Requires == {"ALIGNED", "NOTSWAPPED"}

\* a heap slot that holds no array
FreeSlot ==
    [st |-> "free", type |-> "NPY_BOOL", swapped |-> FALSE, aligned |-> TRUE,
     contig |-> TRUE, writable |-> TRUE, val |-> 0, shape |-> "none",
     base |-> "NULL", uic |-> FALSE]

\* values an element of type t can hold: a bool holds 0 or 1
TypeVals(t) == IF t = "NPY_BOOL" THEN {0, 1} ELSE Vals

\* value conversion done by an array copy between element types
Cast(v, from, to) ==
    IF to = "NPY_BOOL" THEN (IF v = 0 THEN 0 ELSE 1) ELSE v

\* numpy's safe-casting rule between the two element types
CanCastSafely(from, to) == from = to \/ (from = "NPY_BOOL" /\ to = "NPY_DOUBLE")

IsArray(h, a) == a \in ArrayIds /\ h[a].st = "live"

\* PyArray_ISCARRAY: contiguous, aligned, writable and in native byte order
PyArray_ISCARRAY(r) == r.contig /\ r.aligned /\ r.writable /\ ~r.swapped

(* ------------------------------------------------------------------ *)
(* satisfies                                                           *)
(* ------------------------------------------------------------------ *)

\* PyArray_EquivTypenums: the same type number, or two type numbers of one
\* size and kind (long and long long where both take eight bytes)
PyArray_EquivTypenums(t1, t2) ==
    t1 = t2 \/ {t1, t2} = {"NPY_LONG", "NPY_LONGLONG"}

\* satisfies without the test for a canonical array at its start
satisfies_NoShortCircuit(r, requirements, t) ==
    LET type_ok == (t = "NPY_NOTYPE") \/ PyArray_EquivTypenums(r.type, t)
    IN IF r.swapped /\ "NOTSWAPPED" \in requirements THEN FALSE
       ELSE IF ~r.aligned /\ "ALIGNED" \in requirements THEN FALSE
       ELSE IF ~r.contig /\ "C_CONTIGUOUS" \in requirements THEN FALSE
       ELSE IF ~r.writable /\ "WRITEABLE" \in requirements THEN FALSE
       ELSE IF "ENSURECOPY" \in requirements THEN FALSE
       ELSE type_ok

satisfies(r, requirements, t) ==
    LET type_ok == (t = "NPY_NOTYPE") \/ PyArray_EquivTypenums(r.type, t)
    IN IF PyArray_ISCARRAY(r) THEN type_ok
       ELSE IF r.swapped /\ "NOTSWAPPED" \in requirements THEN FALSE
       ELSE IF ~r.aligned /\ "ALIGNED" \in requirements THEN FALSE
       ELSE IF ~r.contig /\ "C_CONTIGUOUS" \in requirements THEN FALSE
       ELSE IF ~r.writable /\ "WRITEABLE" \in requirements THEN FALSE
       ELSE IF "ENSURECOPY" \in requirements THEN FALSE
       ELSE type_ok

(* ------------------------------------------------------------------ *)
(* Array deallocation                                                  *)
(* ------------------------------------------------------------------ *)

\* Py_XDECREF_Array that copies back and leaves the base read-only
Py_XDECREF_Array_LeavesReadOnly(h, v) ==
    IF v \in ShadowIds /\ h[v].st = "live"
    THEN IF h[v].uic
         THEN [h EXCEPT ![h[v].base].val = Cast(h[v].val, h[v].type, h[h[v].base].type),
                        ![v].st = "dead"]
         ELSE [h EXCEPT ![v].st = "dead"]
    ELSE h

\* Py_XDECREF_Array with the copy into the base forgotten
Py_XDECREF_Array_NoCopyBack(h, v) ==
    IF v \in ShadowIds /\ h[v].st = "live"
    THEN IF h[v].uic
         THEN [h EXCEPT ![h[v].base].writable = TRUE, ![v].st = "dead"]
         ELSE [h EXCEPT ![v].st = "dead"]
    ELSE h

\* Py_XDECREF of the last reference to v.  A temporary carrying
\* UPDATEIFCOPY copies itself into its base and makes the base writable
\* again; anything else leaves the heap alone.
Py_XDECREF_Array(h, v) ==
    IF v \in ShadowIds /\ h[v].st = "live"
    THEN IF h[v].uic
         THEN LET b == h[v].base
              IN [h EXCEPT ![b].writable = TRUE,
                           ![b].val = Cast(h[v].val, h[v].type, h[b].type),
                           ![v].st = "dead"]
         ELSE [h EXCEPT ![v].st = "dead"]
    ELSE h

\* PyArray_XDECREF_ERR: drop v without the copy back
PyArray_XDECREF_ERR(h, v) ==
    IF v \in ShadowIds /\ h[v].st = "live"
    THEN IF h[v].uic
         THEN LET b == h[v].base
              IN [h EXCEPT ![b].writable = TRUE, ![v].uic = FALSE, ![v].st = "dead"]
         ELSE [h EXCEPT ![v].st = "dead"]
    ELSE h

(* ------------------------------------------------------------------ *)
(* NA_InputArray, NA_OutputArray, NA_IoArray                           *)
(* ------------------------------------------------------------------ *)

\* result of a coercion: the returned object, the heap and the error set
Result(ret, h, e) == [ret |-> ret, heap |-> h, err |-> e]

\* NA_InputArray: PyArray_CheckFromAny(a, descr(t), 0, 0, requires).
\* `slot` is the heap slot a temporary with UPDATEIFCOPY would take.
NA_InputArray(h, a, t, requires, slot, e) ==
    IF IsArray(h, a)
    THEN LET r == h[a]
             newtype == IF t = "NPY_NOTYPE" THEN r.type ELSE t
             newswapped == IF t = "NPY_NOTYPE"
                           THEN r.swapped /\ "NOTSWAPPED" \notin requires
                           ELSE FALSE
             equiv == newtype = r.type /\ newswapped = r.swapped
             copy == \/ "ENSURECOPY" \in requires
                     \/ ("C_CONTIGUOUS" \in requires /\ ~r.contig)
                     \/ ("ALIGNED" \in requires /\ ~r.aligned)
                     \/ ("WRITEABLE" \in requires /\ ~r.writable)
                     \/ ~equiv
         IN IF ~CanCastSafely(r.type, newtype)
            THEN Result("NULL", h, "TypeConversion")
            ELSE IF ~copy THEN Result(a, h, e)
            ELSE IF "UPDATEIFCOPY" \notin requires THEN Result("tmp", h, e)
            ELSE IF ~r.writable THEN Result("NULL", h, "NotWritable")
            ELSE Result(slot,
                        [h EXCEPT ![slot] =
                             [st |-> "live", type |-> newtype, swapped |-> newswapped,
                              aligned |-> TRUE, contig |-> TRUE, writable |-> TRUE,
                              val |-> Cast(r.val, r.type, newtype), shape |-> r.shape,
                              base |-> a, uic |-> TRUE],
                           ![a].writable = FALSE],
                        e)
    ELSE IF a = "list" /\ "UPDATEIFCOPY" \notin requires
    THEN Result("tmp", h, e)
    ELSE Result("NULL", h, "TypeConversion")

\* NA_OutputArray with the PyArray_ISWRITEABLE test left out
NA_OutputArray_NoWritableCheck(h, a, t, requires, slot, garbage, mem, e) ==
    IF ~IsArray(h, a)
    THEN Result("NULL", h, "NotWritable")
    ELSE IF satisfies(h[a], requires, t)
    THEN Result(a, h, e)
    ELSE IF ~mem
    THEN Result("CRASH", h, "Allocation")
    ELSE LET r == h[a]
             dtype == IF t = "NPY_NOTYPE" THEN r.type ELSE t
         IN Result(slot,
                   [h EXCEPT ![slot] =
                        [st |-> "live", type |-> dtype,
                         swapped |-> (t = "NPY_NOTYPE" /\ r.swapped),
                         aligned |-> TRUE, contig |-> TRUE, writable |-> TRUE,
                         val |-> garbage, shape |-> r.shape,
                         base |-> a, uic |-> TRUE],
                      ![a].writable = FALSE],
                   e)

\* NA_OutputArray with the satisfies test left out: always a temporary
NA_OutputArray_AlwaysShadow(h, a, t, requires, slot, garbage, mem, e) ==
    IF ~IsArray(h, a) \/ ~h[a].writable
    THEN Result("NULL", h, "NotWritable")
    ELSE IF ~mem
    THEN Result("CRASH", h, "Allocation")
    ELSE LET r == h[a]
             dtype == IF t = "NPY_NOTYPE" THEN r.type ELSE t
         IN Result(slot,
                   [h EXCEPT ![slot] =
                        [st |-> "live", type |-> dtype,
                         swapped |-> (t = "NPY_NOTYPE" /\ r.swapped),
                         aligned |-> TRUE, contig |-> TRUE, writable |-> TRUE,
                         val |-> garbage, shape |-> r.shape,
                         base |-> a, uic |-> TRUE],
                      ![a].writable = FALSE],
                   e)

\* NA_OutputArray with PyArray_CLEARFLAGS(a, NPY_ARRAY_WRITEABLE) left out
NA_OutputArray_KeepsWritable(h, a, t, requires, slot, garbage, mem, e) ==
    IF ~IsArray(h, a) \/ ~h[a].writable
    THEN Result("NULL", h, "NotWritable")
    ELSE IF satisfies(h[a], requires, t)
    THEN Result(a, h, e)
    ELSE IF ~mem
    THEN Result("CRASH", h, "Allocation")
    ELSE LET r == h[a]
             dtype == IF t = "NPY_NOTYPE" THEN r.type ELSE t
         IN Result(slot,
                   [h EXCEPT ![slot] =
                        [st |-> "live", type |-> dtype,
                         swapped |-> (t = "NPY_NOTYPE" /\ r.swapped),
                         aligned |-> TRUE, contig |-> TRUE, writable |-> TRUE,
                         val |-> garbage, shape |-> r.shape,
                         base |-> a, uic |-> TRUE]],
                   e)

\* NA_OutputArray.  `garbage` is what the uninitialised PyArray_Empty
\* buffer happens to hold; mem is FALSE when PyArray_Empty returns NULL,
\* which the next line dereferences.
NA_OutputArray(h, a, t, requires, slot, garbage, mem, e) ==
    IF ~IsArray(h, a) \/ ~h[a].writable
    THEN Result("NULL", h, "NotWritable")
    ELSE IF satisfies(h[a], requires, t)
    THEN Result(a, h, e)
    ELSE IF ~mem
    THEN Result("CRASH", h, "Allocation")
    ELSE LET r == h[a]
             dtype == IF t = "NPY_NOTYPE" THEN r.type ELSE t
         IN Result(slot,
                   [h EXCEPT ![slot] =
                        [st |-> "live", type |-> dtype,
                         swapped |-> (t = "NPY_NOTYPE" /\ r.swapped),
                         aligned |-> TRUE, contig |-> TRUE, writable |-> TRUE,
                         val |-> garbage, shape |-> r.shape,
                         base |-> a, uic |-> TRUE],
                      ![a].writable = FALSE],
                   e)

\* NA_IoArray with the guard against a read-only array left out
NA_IoArray_NoGuard(h, a, t, requires, slot, e) ==
    NA_InputArray(h, a, t, requires \cup {"UPDATEIFCOPY"}, slot, e)

\* NA_IoArray asking NA_InputArray for a copy in every case
NA_IoArray_ForcesCopy(h, a, t, requires, slot, e) ==
    LET shadow == NA_InputArray(h, a, t, requires \cup {"UPDATEIFCOPY", "ENSURECOPY"},
                                slot, e)
    IN IF shadow.ret = "NULL" THEN shadow
       ELSE IF ~shadow.heap[shadow.ret].writable
       THEN Result("NULL", PyArray_XDECREF_ERR(shadow.heap, shadow.ret), "NotWritable")
       ELSE shadow

\* NA_IoArray
NA_IoArray(h, a, t, requires, slot, e) ==
    LET shadow == NA_InputArray(h, a, t, requires \cup {"UPDATEIFCOPY"}, slot, e)
    IN IF shadow.ret = "NULL" THEN shadow
       ELSE IF ~shadow.heap[shadow.ret].writable
       THEN Result("NULL", PyArray_XDECREF_ERR(shadow.heap, shadow.ret), "NotWritable")
       ELSE shadow

(* ------------------------------------------------------------------ *)
(* The exposed operations                                              *)
(* ------------------------------------------------------------------ *)

\* The converters of each wrapper's PyArg_ParseTuple format, in order.
\* "In" NI_ObjectToInputArray, "OptIn" NI_ObjectToOptionalInputArray,
\* "Out" NI_ObjectToOutputArray, "OptOut" NI_ObjectToOptionalOutputArray,
\* "Io" NI_ObjectToIoArray, "Seq" NI_ObjectToLongSequence, "Plain" a run of
\* scalar units (i, d, n).  Plain "O" units cannot fail and are read later.
Fmt(o) ==
    CASE o = "correlate1d" -> <<"In", "In", "Plain", "Out", "Plain">>
      [] o = "correlate" -> <<"In", "In", "Out", "Plain", "Seq">>
      [] o = "uniform_filter1d" -> <<"In", "Plain", "Out", "Plain">>
      [] o = "min_or_max_filter1d" -> <<"In", "Plain", "Out", "Plain">>
      [] o = "min_or_max_filter" -> <<"In", "In", "OptIn", "Out", "Plain", "Seq", "Plain">>
      [] o = "rank_filter" -> <<"In", "Plain", "In", "Out", "Plain", "Seq">>
      [] o = "generic_filter1d" -> <<"In", "Plain", "Out", "Plain">>
      [] o = "generic_filter" -> <<"In", "In", "Out", "Plain", "Seq">>
      [] o = "fourier_filter" -> <<"In", "In", "Plain", "Out", "Plain">>
      [] o = "fourier_shift" -> <<"In", "In", "Plain", "Out">>
      [] o = "spline_filter1d" -> <<"In", "Plain", "Out">>
      [] o = "geometric_transform" -> <<"In", "OptIn", "OptIn", "OptIn", "Out", "Plain">>
      [] o = "zoom_shift" -> <<"In", "OptIn", "OptIn", "Out", "Plain">>
      [] o = "find_objects" -> <<"In", "Plain">>
      [] o = "watershed_ift" -> <<"In", "In", "In", "Out">>
      [] o = "distance_transform_bf" -> <<"In", "Plain", "OptIn", "OptOut", "OptOut">>
      [] o = "distance_transform_op" -> <<"In", "Io", "OptOut">>
      [] o = "euclidean_feature_transform" -> <<"In", "OptIn", "Out">>
      [] o = "binary_erosion" -> <<"In", "In", "OptIn", "Out", "Plain", "Seq", "Plain">>
      [] o = "binary_erosion2" -> <<"Io", "In", "OptIn", "Plain", "Seq", "Plain">>

\* The argument positions whose array locals the exit label releases, in
\* the order of its Py_XDECREF calls.
ExitOrder(o) ==
    CASE o = "correlate1d" -> <<1, 2, 4>>
      [] o = "correlate" -> <<1, 2, 3>>
      [] o = "uniform_filter1d" -> <<1, 3>>
      [] o = "min_or_max_filter1d" -> <<1, 3>>
      [] o = "min_or_max_filter" -> <<1, 2, 3, 4>>
      [] o = "rank_filter" -> <<1, 3, 4>>
      [] o = "generic_filter1d" -> <<1, 3>>
      [] o = "generic_filter" -> <<1, 3, 2>>
      [] o = "fourier_filter" -> <<1, 2, 4>>
      [] o = "fourier_shift" -> <<1, 2, 4>>
      [] o = "spline_filter1d" -> <<1, 3>>
      [] o = "geometric_transform" -> <<1, 5, 2, 3, 4>>
      [] o = "zoom_shift" -> <<1, 3, 2, 4>>
      [] o = "find_objects" -> <<1>>
      [] o = "watershed_ift" -> <<1, 2, 3, 4>>
      [] o = "distance_transform_bf" -> <<1, 3, 4, 5>>
      [] o = "distance_transform_op" -> <<1, 2, 3>>
      [] o = "euclidean_feature_transform" -> <<1, 2, 3>>
      [] o = "binary_erosion" -> <<1, 2, 3, 4>>
      [] o = "binary_erosion2" -> <<1, 2, 3>>

\* wrappers that do nothing between parsing and the kernel call
PlainOps ==
    {"correlate1d", "correlate", "uniform_filter1d", "min_or_max_filter1d",
     "min_or_max_filter", "rank_filter", "fourier_filter", "fourier_shift",
     "spline_filter1d", "zoom_shift", "watershed_ift", "distance_transform_bf",
     "distance_transform_op", "euclidean_feature_transform"}

\* wrappers that take a callback
CallbackOps == {"generic_filter1d", "generic_filter", "geometric_transform"}

OpNames == PlainOps \cup CallbackOps \cup {"find_objects", "binary_erosion", "binary_erosion2"}

\* converters that yield a view the kernel writes to
OutRoles == {"Out", "OptOut", "Io"}

(* ------------------------------------------------------------------ *)
(* State                                                               *)
(* ------------------------------------------------------------------ *)

VARIABLES
    arr,        \* the heap: caller arrays and temporaries
    err,        \* the interpreter's error indicator ("none" when clear)
    crashed,    \* the process died on an invalid memory access
    op,         \* the wrapper being executed ("idle" between calls)
    pc,         \* where the wrapper is: parse, prep, kernel, build, exit, done
    argi,       \* the format unit PyArg_ParseTuple converts next
    loc,        \* the wrapper's array locals, by argument position
    src,        \* the object the caller passed at each position
    pre,        \* the heap as it was when the call began
    kern,       \* whether the kernel ran and the status it returned
    ret,        \* what the wrapper returned
    origin,     \* the npy_intp* local filled by NI_ObjectToLongSequence
    cb,         \* the ccallback_t local and the func pointer given to the kernel
    handle,     \* the caller's capsule, its coordinate list, the cobj local
    fo,         \* Py_FindObjects: max_label, rank, regions and the result list
    tramp,      \* the calls the kernel made through Py_Filter1DFunc, Py_FilterFunc, Py_Map
    sat         \* one call of satisfies: its arguments and what it returned

vars == <<arr, err, crashed, op, pc, argi, loc, src, pre, kern, ret, origin,
          cb, handle, fo, tramp, sat>>

\* an array of the caller
CallerArray(type, shape, swapped, aligned, contig, writable) ==
    [st |-> "live", type |-> type, swapped |-> swapped, aligned |-> aligned,
     contig |-> contig, writable |-> writable, val |-> 0, shape |-> shape,
     base |-> "NULL", uic |-> FALSE]

\* the layouts the first array of the caller starts in: canonical, a
\* strided view, misaligned, byte-swapped, and read-only (aligned or not)
CallerLayouts ==
    {CallerArray("NPY_DOUBLE", "2x3", FALSE, TRUE, TRUE, TRUE),
     CallerArray("NPY_DOUBLE", "2x3", FALSE, TRUE, FALSE, TRUE),
     CallerArray("NPY_DOUBLE", "2x3", FALSE, FALSE, TRUE, TRUE),
     CallerArray("NPY_DOUBLE", "2x3", TRUE, TRUE, TRUE, TRUE),
     CallerArray("NPY_DOUBLE", "2x3", FALSE, TRUE, TRUE, FALSE),
     CallerArray("NPY_DOUBLE", "2x3", FALSE, FALSE, TRUE, FALSE)}

\* free slots that can take a new temporary
FreeSlots(h) == {s \in ShadowIds : h[s].st = "free"}

\* the slot the next temporary takes
NextSlot(h) == IF "S1" \in FreeSlots(h) THEN "S1" ELSE "S2"

\* the element type of the temporary NA_OutputArray would allocate for a
ShadowType(h, a, t) ==
    IF t = "NPY_NOTYPE" THEN (IF a \in ArrayIds THEN h[a].type ELSE "NPY_DOUBLE") ELSE t

NoLocals == [i \in 1..7 |-> "NULL"]

NoOrigin == [alloc |-> FALSE, data |-> <<>>, len |-> 0, nullAccess |-> FALSE,
             frees |-> 0]

NoKernel == [ran |-> FALSE, status |-> 1, on |-> "none"]

\* an object local of a wrapper that was not given a value
NoObject == [kind |-> "NULL", items |-> <<>>, keys |-> {}]

\* the ccallback_t local, func, cbdata, and what the caller passed as fnc,
\* extra_arguments and extra_keywords; prepared tells how ccallback_prepare
\* ended and released counts the calls of ccallback_release
NoCallback == [py_function |-> FALSE, c_function |-> FALSE, func |-> "NULL",
               released |-> 0, prepared |-> "not_run", fnc |-> "NULL",
               extra_arguments |-> "NULL", extra_keywords |-> "NULL",
               cbdata |-> [extra_arguments |-> NoObject, extra_keywords |-> NoObject]]

\* cap: whether the caller holds a capsule made by binary_erosion; ptr: the
\* pointer stored in it; list: the coordinate list it points to; cobj:
\* the cobj local of Py_BinaryErosion; arg and cobj_data: the cobj argument
\* and the cobj_data local of Py_BinaryErosion2
NoHandle == [cap |-> "none", list |-> "none", cobj |-> "NULL", arg |-> "none",
             ptr |-> "none", cobj_data |-> "NULL"]

\* no call of satisfies, as in every run of the wrappers
NoSat == [a |-> FreeSlot, requirements |-> {}, t |-> "NPY_NOTYPE", result |-> -1]

NoTramp == <<>>

NoFind == [max_label |-> 0, arg |-> 0, ndim |-> 0, regions |-> <<>>,
           recorded |-> <<>>, list |-> FALSE, result |-> <<>>, refs |-> 0,
           overfree |-> FALSE]

Init ==
    /\ \E r1 \in CallerLayouts :
         arr = [i \in ArrayIds |->
                  IF i = "A1" THEN r1
                  ELSE IF i = "A2"
                  THEN CallerArray("NPY_BOOL", "4", FALSE, FALSE, TRUE, TRUE)
                  ELSE FreeSlot]
    /\ err = "none"
    /\ crashed = FALSE
    /\ op = "idle"
    /\ pc = "idle"
    /\ argi = 1
    /\ loc = NoLocals
    /\ src = NoLocals
    /\ pre = arr
    /\ kern = NoKernel
    /\ ret = "none"
    /\ origin = NoOrigin
    /\ cb = NoCallback
    /\ handle = NoHandle
    /\ fo = NoFind
    /\ tramp = NoTramp
    /\ sat = NoSat

(* ------------------------------------------------------------------ *)
(* Converters                                                          *)
(* ------------------------------------------------------------------ *)

\* what a converter hands back to PyArg_ParseTuple: its return value, the
\* object it stored, the heap and the error indicator
Conv(res) == [ok |-> res.ret # "NULL", ret |-> res.ret, heap |-> res.heap, err |-> res.err]

NI_ObjectToInputArray(h, object, slot, e) ==
    Conv(NA_InputArray(h, object, "NPY_NOTYPE", NI_Requires, slot, e))

NI_ObjectToOptionalInputArray(h, object, slot, e) ==
    IF object = "Py_None"
    THEN [ok |-> TRUE, ret |-> "NULL", heap |-> h, err |-> e]
    ELSE Conv(NA_InputArray(h, object, "NPY_NOTYPE", NI_Requires, slot, e))

NI_ObjectToOutputArray(h, object, slot, garbage, mem, e) ==
    Conv(NA_OutputArray(h, object, "NPY_NOTYPE", NI_Requires, slot, garbage, mem, e))

NI_ObjectToOptionalOutputArray(h, object, slot, garbage, mem, e) ==
    IF object = "Py_None"
    THEN [ok |-> TRUE, ret |-> "NULL", heap |-> h, err |-> e]
    ELSE Conv(NA_OutputArray(h, object, "NPY_NOTYPE", NI_Requires, slot, garbage, mem, e))

NI_ObjectToIoArray(h, object, slot, e) ==
    Conv(NA_IoArray(h, object, "NPY_NOTYPE", NI_Requires, slot, e))

\* the integer sequences a caller passes; convertible is FALSE for an
\* object NA_InputArray cannot turn into an array of npy_intp
SeqObjects ==
    {[convertible |-> TRUE, data |-> d] : d \in {<<>>, <<0, 1>>}}
        \cup {[convertible |-> FALSE, data |-> <<>>]}

\* what reading a length through a NULL array can yield when it does not trap
GarbageSeqs == {<<7>>}

\* NI_ObjectToLongSequenceAndLength.  mem: malloc returned a buffer.
\* ub: what the reads through a NULL array do ("crash", or "garbage" when
\* they return); junk: the data such reads produce.
NI_ObjectToLongSequenceAndLength(object, mem, ub, junk, e) ==
    LET array == IF object.convertible THEN "tmp" ELSE "NULL"
        e1 == IF array = "NULL" THEN "TypeConversion" ELSE e
        data == IF array = "NULL" THEN junk ELSE object.data
        length == Len(data)
    IN IF array = "NULL" /\ ub = "crash"
       THEN [length |-> 0, crash |-> TRUE, err |-> e1,
             sequence |-> [alloc |-> FALSE, data |-> <<>>, len |-> 0,
                           nullAccess |-> TRUE, frees |-> 0]]
       ELSE IF ~mem
       THEN [length |-> -1, crash |-> FALSE, err |-> "Allocation",
             sequence |-> [alloc |-> FALSE, data |-> <<>>, len |-> -1,
                           nullAccess |-> (array = "NULL"), frees |-> 0]]
       ELSE [length |-> length, crash |-> FALSE, err |-> e1,
             sequence |-> [alloc |-> TRUE, data |-> data, len |-> length,
                           nullAccess |-> (array = "NULL"), frees |-> 0]]

NI_ObjectToLongSequence(object, mem, ub, junk, e) ==
    LET r == NI_ObjectToLongSequenceAndLength(object, mem, ub, junk, e)
    IN [r EXCEPT !.length = IF r.length >= 0 THEN 1 ELSE 0]

(* ------------------------------------------------------------------ *)
(* PyArg_ParseTuple, one format unit at a time                         *)
(* ------------------------------------------------------------------ *)

\* where a wrapper goes once every unit is converted
AfterParse(o) == IF o \in CallbackOps \cup {"find_objects"} THEN "prep" ELSE "kernel"

\* the unit is done: go on to the next one, or leave PyArg_ParseTuple
Advance(o) ==
    /\ argi' = argi + 1
    /\ pc' = IF argi = Len(Fmt(o)) THEN AfterParse(o) ELSE "parse"

\* an array converter ran on object and returned c
Converted(o, object, c) ==
    IF c.ret = "CRASH"
    THEN /\ crashed' = TRUE
         /\ UNCHANGED <<sat, tramp, arr, err, op, pc, argi, loc, src, pre, kern, ret, origin,
                        cb, handle, fo>>
    ELSE /\ arr' = c.heap
         /\ err' = c.err
         /\ src' = [src EXCEPT ![argi] = object]
         /\ loc' = [loc EXCEPT ![argi] = c.ret]
         /\ IF c.ok THEN Advance(o) ELSE pc' = "exit" /\ argi' = argi
         /\ UNCHANGED <<sat, tramp, crashed, op, pre, kern, ret, origin, cb, handle, fo>>

ParseIn(o) ==
    \E object \in {"list", "junk"} :
        Converted(o, object, NI_ObjectToInputArray(arr, object, NextSlot(arr), err))

ParseOptIn(o) ==
    \E object \in {"Py_None", "list", "junk"} :
        Converted(o, object, NI_ObjectToOptionalInputArray(arr, object, NextSlot(arr), err))

ParseOut(o) ==
    \E object \in CallerArrays \cup {"list"}, mem \in BOOLEAN :
        \E garbage \in TypeVals(ShadowType(arr, object, "NPY_NOTYPE")) :
            Converted(o, object,
                      NI_ObjectToOutputArray(arr, object, NextSlot(arr), garbage, mem, err))

ParseOptOut(o) ==
    \E object \in CallerArrays \cup {"list", "Py_None"}, mem \in BOOLEAN :
        \E garbage \in TypeVals(ShadowType(arr, object, "NPY_NOTYPE")) :
            Converted(o, object,
                      NI_ObjectToOptionalOutputArray(arr, object, NextSlot(arr), garbage,
                                                     mem, err))

ParseIo(o) ==
    \E object \in CallerArrays \cup {"list"} :
        Converted(o, object, NI_ObjectToIoArray(arr, object, NextSlot(arr), err))

ParseSeq(o) ==
    \E object \in SeqObjects, mem \in BOOLEAN, ub \in {"crash", "garbage"},
       junk \in GarbageSeqs :
        LET c == NI_ObjectToLongSequence(object, mem, ub, junk, err)
        IN IF c.crash
           THEN /\ crashed' = TRUE
                /\ origin' = c.sequence
                /\ UNCHANGED <<sat, tramp, arr, err, op, pc, argi, loc, src, pre, kern, ret,
                               cb, handle, fo>>
           ELSE /\ origin' = c.sequence
                /\ err' = c.err
                /\ IF c.length = 1 THEN Advance(o) ELSE pc' = "exit" /\ argi' = argi
                /\ UNCHANGED <<sat, tramp, arr, crashed, op, loc, src, pre, kern, ret, cb, handle, fo>>

\* a run of scalar units: every value has the type its unit asks for, or
\* one does not and PyArg_ParseTuple raises
ParsePlain(o) ==
    \E good \in BOOLEAN :
        /\ IF good THEN Advance(o) /\ err' = err
           ELSE pc' = "exit" /\ argi' = argi /\ err' = "TypeConversion"
        /\ UNCHANGED <<sat, tramp, arr, crashed, op, loc, src, pre, kern, ret, origin, cb, handle, fo>>

PyArg_ParseTuple(o) ==
    /\ ~crashed /\ op = o /\ pc = "parse"
    /\ LET unit == Fmt(o)[argi]
       IN \/ unit = "In" /\ ParseIn(o)
          \/ unit = "OptIn" /\ ParseOptIn(o)
          \/ unit = "Out" /\ ParseOut(o)
          \/ unit = "OptOut" /\ ParseOptOut(o)
          \/ unit = "Io" /\ ParseIo(o)
          \/ unit = "Seq" /\ ParseSeq(o)
          \/ unit = "Plain" /\ ParsePlain(o)

\* the caller invokes wrapper o
Enter(o) ==
    /\ ~crashed /\ pc = "idle"
    /\ op' = o
    /\ pc' = "parse"
    /\ argi' = 1
    /\ pre' = arr
    /\ UNCHANGED <<sat, tramp, arr, err, crashed, loc, src, kern, ret, origin, cb, handle, fo>>

(* ------------------------------------------------------------------ *)
(* Kernel and exit                                                     *)
(* ------------------------------------------------------------------ *)

\* the views the kernel of o stores into
OutViews(o, l) == {l[i] : i \in {j \in 1..Len(Fmt(o)) : Fmt(o)[j] \in OutRoles}} \ {"NULL"}

\* the stores a kernel can make into its views
KernelWrites(h, views) ==
    {w \in [views -> Vals] : \A v \in views : w[v] \in TypeVals(h[v].type)}

\* a kernel ran: w is what it stored, outcome how it ended.  A kernel that
\* stops early has stored part of its output.
NI_Kernel(h, w, outcome, e) ==
    [heap |-> [i \in ArrayIds |-> IF i \in DOMAIN w THEN [h[i] EXCEPT !.val = w[i]] ELSE h[i]],
     status |-> IF outcome = "ok" THEN 1 ELSE 0,
     err |-> IF outcome = "fail_err" THEN "Engine" ELSE e]

KernelOutcomes == {"ok", "fail_err", "fail_silent"}

\* a kernel stops with failure as soon as a call through func returns 0,
\* leaving the error as the callback set it
KernelOutcomesAfter(calls) ==
    IF calls # <<>> /\ calls[Len(calls)].status = 0 THEN {"fail_silent"}
    ELSE KernelOutcomes

\* an exit label with only its first Py_XDECREF
ReleaseAll_FirstOnly(h, l, order) ==
    IF order = <<>> THEN h ELSE Py_XDECREF_Array(h, l[Head(order)])

\* the Py_XDECREF calls of the exit label, in order
RECURSIVE ReleaseAll(_, _, _)
ReleaseAll(h, l, order) ==
    IF order = <<>> THEN h
    ELSE ReleaseAll(Py_XDECREF_Array(h, l[Head(order)]), l, Tail(order))

\* an exit label without free(origin)
FreeSequence_Never(o, sq) == sq

\* free(origin): free(NULL) does nothing
FreeSequence(o, sq) ==
    IF "Seq" \in {Fmt(o)[i] : i \in 1..Len(Fmt(o))} /\ sq.alloc
    THEN [sq EXCEPT !.frees = @ + 1]
    ELSE sq

\* return PyErr_Occurred() ? NULL : Py_BuildValue("")
ReturnValue(e, value) == IF e # "none" THEN "NULL" ELSE value

\* the call of the kernel in a wrapper with nothing else in its body
CallKernel(o) ==
    /\ ~crashed /\ op = o /\ pc = "kernel"
    /\ \E w \in KernelWrites(arr, OutViews(o, loc)),
          outcome \in KernelOutcomesAfter(tramp) :
         LET k == NI_Kernel(arr, w, outcome, err)
         IN /\ arr' = k.heap
            /\ err' = k.err
            /\ kern' = [ran |-> TRUE, status |-> k.status, on |-> "none"]
    /\ pc' = "exit"
    /\ UNCHANGED <<sat, tramp, crashed, op, argi, loc, src, pre, ret, origin, cb, handle, fo>>

\* the exit label of a wrapper that returns None
ExitNone(o) ==
    /\ ~crashed /\ op = o /\ pc = "exit"
    /\ arr' = ReleaseAll(arr, loc, ExitOrder(o))
    /\ origin' = FreeSequence(o, origin)
    /\ ret' = ReturnValue(err, "None")
    /\ pc' = "done"
    /\ UNCHANGED <<sat, tramp, err, crashed, op, argi, loc, src, pre, kern, cb, handle, fo>>

\* a wrapper of the shape parse, kernel, exit
Wrapper(o) == Enter(o) \/ PyArg_ParseTuple(o) \/ CallKernel(o) \/ ExitNone(o)

Py_Correlate1D == Wrapper("correlate1d")
Py_Correlate == Wrapper("correlate")
Py_UniformFilter1D == Wrapper("uniform_filter1d")
Py_MinOrMaxFilter1D == Wrapper("min_or_max_filter1d")
Py_MinOrMaxFilter == Wrapper("min_or_max_filter")
Py_RankFilter == Wrapper("rank_filter")
Py_FourierFilter == Wrapper("fourier_filter")
Py_FourierShift == Wrapper("fourier_shift")
Py_SplineFilter1D == Wrapper("spline_filter1d")
Py_ZoomShift == Wrapper("zoom_shift")
Py_WatershedIFT == Wrapper("watershed_ift")
Py_DistanceTransformBruteForce == Wrapper("distance_transform_bf")
Py_DistanceTransformOnePass == Wrapper("distance_transform_op")
Py_EuclideanFeatureTransform == Wrapper("euclidean_feature_transform")

(* ------------------------------------------------------------------ *)
(* Wrappers that take a callback                                       *)
(* ------------------------------------------------------------------ *)

\* what the caller can pass as extra_arguments: a tuple, or something else
ExtraArguments ==
    {[kind |-> "tuple", items |-> <<"x", "y">>, keys |-> {}],
     [kind |-> "list", items |-> <<"x">>, keys |-> {}]}

\* what the caller can pass as extra_keywords: a dict, or something else
ExtraKeywords ==
    {[kind |-> "dict", items |-> <<>>, keys |-> {"k"}],
     [kind |-> "list", items |-> <<"k">>, keys |-> {}]}

\* what the caller can pass as fnc
CallbackObjects == {"legacy_capsule", "callable", "lowlevel", "unmatched"}

\* ccallback_prepare: a Python callable is kept as py_function, a
\* LowLevelCallable matching an entry of the signature catalogue as
\* c_function; anything else fails with the error set
ccallback_prepare(fnc) ==
    IF fnc = "callable"
    THEN [ret |-> 0, py_function |-> TRUE, c_function |-> FALSE]
    ELSE IF fnc = "lowlevel"
    THEN [ret |-> 0, py_function |-> FALSE, c_function |-> TRUE]
    ELSE [ret |-> -1, py_function |-> FALSE, c_function |-> FALSE]

\* the body of a callback wrapper between PyArg_ParseTuple and the kernel
\* call: the result is the ccallback_t local, func, the error and whether
\* the wrapper goes on to the kernel
\* ResolveCallback without the PyTuple_Check of extra_arguments
ResolveCallback_NoTupleCheck(fnc, extra_arguments, extra_keywords, e) ==
    LET c0 == [NoCallback EXCEPT !.fnc = fnc,
                                 !.extra_arguments = extra_arguments.kind,
                                 !.extra_keywords = extra_keywords.kind]
    IN IF extra_keywords.kind # "dict"
       THEN [cb |-> c0, err |-> "Callback", go |-> FALSE]
       ELSE IF fnc = "legacy_capsule"
       THEN [cb |-> [c0 EXCEPT !.func = "native"], err |-> e, go |-> TRUE]
       ELSE LET r == ccallback_prepare(fnc)
            IN IF r.ret = -1
               THEN [cb |-> [c0 EXCEPT !.prepared = "failed"], err |-> "Callback",
                     go |-> FALSE]
               ELSE [cb |-> [c0 EXCEPT
                               !.py_function = r.py_function,
                               !.c_function = r.c_function,
                               !.prepared = "ok",
                               !.func = IF r.py_function THEN "trampoline" ELSE "native",
                               !.cbdata = IF r.py_function
                                          THEN [extra_arguments |-> extra_arguments,
                                                extra_keywords |-> extra_keywords]
                                          ELSE @],
                     err |-> e, go |-> TRUE]

ResolveCallback(fnc, extra_arguments, extra_keywords, e) ==
    LET c0 == [NoCallback EXCEPT !.fnc = fnc,
                                 !.extra_arguments = extra_arguments.kind,
                                 !.extra_keywords = extra_keywords.kind]
    IN IF extra_arguments.kind # "tuple" \/ extra_keywords.kind # "dict"
       THEN [cb |-> c0, err |-> "Callback", go |-> FALSE]
       ELSE IF fnc = "legacy_capsule"
       THEN [cb |-> [c0 EXCEPT !.func = "native"], err |-> e, go |-> TRUE]
       ELSE LET r == ccallback_prepare(fnc)
            IN IF r.ret = -1
               THEN [cb |-> [c0 EXCEPT !.prepared = "failed"], err |-> "Callback",
                     go |-> FALSE]
               ELSE [cb |-> [c0 EXCEPT
                               !.py_function = r.py_function,
                               !.c_function = r.c_function,
                               !.prepared = "ok",
                               !.func = IF r.py_function THEN "trampoline" ELSE "native",
                               !.cbdata = IF r.py_function
                                          THEN [extra_arguments |-> extra_arguments,
                                                extra_keywords |-> extra_keywords]
                                          ELSE @],
                     err |-> e, go |-> TRUE]

PrepareCallback(o) ==
    /\ ~crashed /\ op = o /\ pc = "prep"
    /\ \E fnc \in CallbackObjects \cup (IF o = "geometric_transform" THEN {"Py_None"} ELSE {}),
          extra_arguments \in ExtraArguments, extra_keywords \in ExtraKeywords :
         LET r == IF fnc = "Py_None"
                  THEN [cb |-> [NoCallback EXCEPT
                                  !.fnc = fnc,
                                  !.extra_arguments = extra_arguments.kind,
                                  !.extra_keywords = extra_keywords.kind],
                        err |-> err, go |-> TRUE]
                  ELSE ResolveCallback(fnc, extra_arguments, extra_keywords, err)
         IN /\ cb' = r.cb
            /\ err' = r.err
            /\ pc' = IF r.go THEN "kernel" ELSE "exit"
    /\ UNCHANGED <<sat, tramp, arr, crashed, op, argi, loc, src, pre, kern, ret, origin, handle, fo>>

\* ReleaseCallback that looks at py_function only
ReleaseCallback_PyOnly(c) ==
    IF c.py_function THEN [c EXCEPT !.released = @ + 1] ELSE c

\* ccallback_release runs when ccallback_prepare filled the ccallback_t
ReleaseCallback(c) ==
    IF c.py_function \/ c.c_function THEN [c EXCEPT !.released = @ + 1] ELSE c

ExitCallback(o) ==
    /\ ~crashed /\ op = o /\ pc = "exit"
    /\ cb' = ReleaseCallback(cb)
    /\ arr' = ReleaseAll(arr, loc, ExitOrder(o))
    /\ origin' = FreeSequence(o, origin)
    /\ ret' = ReturnValue(err, "None")
    /\ pc' = "done"
    /\ UNCHANGED <<sat, tramp, err, crashed, op, argi, loc, src, pre, kern, handle, fo>>

CallbackWrapper(o) ==
    Enter(o) \/ PyArg_ParseTuple(o) \/ PrepareCallback(o) \/ CallKernel(o) \/ ExitCallback(o)

Py_GenericFilter1D == CallbackWrapper("generic_filter1d")
Py_GenericFilter == CallbackWrapper("generic_filter")
Py_GeometricTransform == CallbackWrapper("geometric_transform")

(* ------------------------------------------------------------------ *)
(* Trampolines: the kernel's calls into a Python callable              *)
(* ------------------------------------------------------------------ *)

\* what PyObject_Call gives back: NULL with the error set when the
\* callable raised, else the object it returned
Returned(kind, items) == [kind |-> kind, items |-> items]

\* PyFloat_AsDouble succeeds on a number and sets the error otherwise
IsNumber(x) == x = "num"

\* n numbers
Numbers(n) == [i \in 1..n |-> "num"]

\* what a callable given to generic_filter1d can do: raise, or return
\* (its result is the output window, the returned object is not looked at)
Filter1DResults == {Returned("raise", <<>>), Returned("none", <<>>)}

\* what a callable given to generic_filter can do: raise, return a number,
\* return something that is no number
FilterResults == {Returned("raise", <<>>), Returned("float", <<"num">>),
                  Returned("str", <<"str">>)}

\* what a callable given to geometric_transform can do for an input of
\* rank irank: raise, return a tuple of irank numbers, one too short, one
\* too long, one with an element that is no number, or a list
MapResults(irank) ==
    {Returned("raise", <<>>),
     Returned("tuple", Numbers(irank)),
     Returned("tuple", Numbers(irank - 1)),
     Returned("tuple", Numbers(irank + 1)),
     Returned("tuple", [i \in 1..irank |-> IF i = irank THEN "str" ELSE "num"]),
     Returned("list", Numbers(irank))}

\* output and input rank of one geometric_transform call
MapRanks == {<<1, 2>>}

\* one call of a trampoline: whether the callable was called and with
\* what, what it gave back, the status returned to the kernel and the
\* error indicator at return
Invocation(fn, called, args, kwargs, rv, irank, e) ==
    [fn |-> fn, called |-> called, args |-> args, kwargs |-> kwargs, rv |-> rv,
     irank |-> irank, err |-> e, status |-> IF e # "none" THEN 0 ELSE 1]

\* PySequence_Concat(tmp, cbdata->extra_arguments) that takes the extra
\* arguments in reverse
ConcatArgs_Reversed(native, cbdata) ==
    native \o [i \in 1..Len(cbdata.extra_arguments.items) |->
                 cbdata.extra_arguments.items[Len(cbdata.extra_arguments.items) + 1 - i]]

\* tmp = Py_BuildValue(...); args = PySequence_Concat(tmp, cbdata->extra_arguments)
ConcatArgs(native, cbdata) == native \o cbdata.extra_arguments.items

\* Py_Filter1DFunc.  mem: NA_NewArray got its memory
Py_Filter1DFunc(cbdata, mem, rv, e) ==
    IF ~mem
    THEN Invocation("Py_Filter1DFunc", FALSE, <<>>, {}, Returned("raise", <<>>), 0,
                    "Allocation")
    ELSE LET args == ConcatArgs(<<"py_ibuffer", "py_obuffer">>, cbdata)
         IN Invocation("Py_Filter1DFunc", TRUE, args, cbdata.extra_keywords.keys, rv, 0,
                       IF rv.kind = "raise" THEN "Callable" ELSE e)

\* Py_FilterFunc
Py_FilterFunc(cbdata, mem, rv, e) ==
    IF ~mem
    THEN Invocation("Py_FilterFunc", FALSE, <<>>, {}, Returned("raise", <<>>), 0,
                    "Allocation")
    ELSE LET args == ConcatArgs(<<"py_buffer">>, cbdata)
         IN Invocation("Py_FilterFunc", TRUE, args, cbdata.extra_keywords.keys, rv, 0,
                       IF rv.kind = "raise" THEN "Callable"
                       ELSE IF ~IsNumber(rv.items[1]) THEN "NotANumber"
                       ELSE e)

\* the loop of Py_Map over the input rank: PyTuple_GetItem fails on an
\* object that is no tuple and on an index past its end, PyFloat_AsDouble
\* on an element that is no number
MapLoopError(rets, irank, e) ==
    IF irank > 0 /\ rets.kind # "tuple" THEN "NotATuple"
    ELSE IF \E ii \in 1..irank : ii > Len(rets.items) THEN
        (IF \E ii \in 1..Len(rets.items) : ~IsNumber(rets.items[ii])
         THEN "NotANumber" ELSE "IndexOutOfRange")
    ELSE IF \E ii \in 1..irank : ~IsNumber(rets.items[ii]) THEN "NotANumber"
    ELSE e

\* Py_Map.  mem: PyTuple_New and PyLong_FromSsize_t got their memory
Py_Map(cbdata, orank, irank, mem, rets, e) ==
    IF ~mem
    THEN Invocation("Py_Map", FALSE, <<>>, {}, Returned("raise", <<>>), irank,
                    "Allocation")
    ELSE LET args == ConcatArgs(<<"coors">>, cbdata)
         IN Invocation("Py_Map", TRUE, args, cbdata.extra_keywords.keys, rets, irank,
                       IF rets.kind = "raise" THEN "Callable"
                       ELSE MapLoopError(rets, irank, e))

\* the kernel of o is running and calls through func
InTrampoline(o) ==
    /\ ~crashed /\ op = o /\ pc = "kernel" /\ cb.func = "trampoline"
    /\ Len(tramp) < MaxCalls
    /\ (tramp # <<>> => tramp[Len(tramp)].status = 1)

\* the trampoline returned r to the kernel
TrampolineReturns(r) ==
    /\ tramp' = Append(tramp, r)
    /\ err' = r.err
    /\ UNCHANGED <<arr, crashed, op, pc, argi, loc, src, pre, kern, ret, origin, cb,
                   handle, fo, sat>>

CallFilter1DFunc ==
    /\ InTrampoline("generic_filter1d")
    /\ \E mem \in BOOLEAN, rv \in Filter1DResults :
         TrampolineReturns(Py_Filter1DFunc(cb.cbdata, mem, rv, err))

CallFilterFunc ==
    /\ InTrampoline("generic_filter")
    /\ \E mem \in BOOLEAN, rv \in FilterResults :
         TrampolineReturns(Py_FilterFunc(cb.cbdata, mem, rv, err))

CallMap ==
    /\ InTrampoline("geometric_transform")
    /\ \E mem \in BOOLEAN, ranks \in MapRanks :
         /\ tramp # <<>> => ranks[2] = tramp[1].irank
         /\ \E rets \in MapResults(ranks[2]) :
              TrampolineReturns(Py_Map(cb.cbdata, ranks[1], ranks[2], mem, rets, err))

(* ------------------------------------------------------------------ *)
(* Py_FindObjects                                                      *)
(* ------------------------------------------------------------------ *)

\* ranks of the labelled input
Ranks == {0, 1, 2}

\* the start and end a region can have along one axis
Spans == {<<0, 1>>, <<1, 3>>}

\* what the engine found for one label: nothing, or a box
RegionEntries(ndim) ==
    {[present |-> FALSE, box |-> <<>>]}
        \cup {[present |-> TRUE, box |-> b] : b \in [1..ndim -> Spans]}

\* NI_FindObjects: the regions buffer the engine fills for what it found.
\* Per label 2 * ndim numbers, the starts and then the ends; -1 when the
\* label has no voxels.
NI_FindObjects(recorded, ndim, max_label) ==
    IF ndim > 0
    THEN [k \in 0..(2 * ndim * max_label - 1) |->
            LET e == recorded[(k \div (2 * ndim)) + 1]
                r == k % (2 * ndim)
            IN IF ~e.present THEN -1
               ELSE IF r < ndim THEN e.box[r + 1][1] ELSE e.box[r - ndim + 1][2]]
    ELSE [k \in 0..(max_label - 1) |-> IF recorded[k + 1].present THEN 0 ELSE -1]

\* ResultEntry reading each end right after its start
ResultEntry_AdjacentEnd(regions, ndim, ii) ==
    LET idx == IF ndim > 0 THEN 2 * ndim * ii ELSE ii
    IN IF regions[idx] >= 0
       THEN [present |-> TRUE,
             box |-> [jj \in 1..ndim |->
                        <<regions[idx + (jj - 1)], regions[idx + (jj - 1) + 1]>>]]
       ELSE [present |-> FALSE, box |-> <<>>]

\* the list entry built for label ii + 1: a tuple of slices, or None
ResultEntry(regions, ndim, ii) ==
    LET idx == IF ndim > 0 THEN 2 * ndim * ii ELSE ii
    IN IF regions[idx] >= 0
       THEN [present |-> TRUE,
             box |-> [jj \in 1..ndim |->
                        <<regions[idx + (jj - 1)], regions[idx + (jj - 1) + ndim]>>]]
       ELSE [present |-> FALSE, box |-> <<>>]

\* the loop that fills the result list
BuildResult(regions, ndim, max_label) ==
    [ii \in 1..max_label |-> ResultEntry(regions, ndim, ii - 1)]

\* max_label is clamped and the regions buffer allocated
FindObjectsAlloc ==
    /\ ~crashed /\ op = "find_objects" /\ pc = "prep"
    /\ \E n \in -1..MaxLabel, ndim \in Ranks, mem \in BOOLEAN :
         LET max_label == IF n < 0 THEN 0 ELSE n
         IN /\ fo' = [fo EXCEPT !.arg = n, !.max_label = max_label, !.ndim = ndim]
            /\ IF max_label > 0 /\ ~mem
               THEN err' = "Allocation" /\ pc' = "exit"
               ELSE err' = err /\ pc' = "kernel"
    /\ UNCHANGED <<sat, tramp, arr, crashed, op, argi, loc, src, pre, kern, ret, origin, cb, handle>>

FindObjectsKernel ==
    /\ ~crashed /\ op = "find_objects" /\ pc = "kernel"
    /\ \E outcome \in KernelOutcomes,
          recorded \in [1..fo.max_label -> RegionEntries(fo.ndim)] :
         /\ kern' = [ran |-> TRUE, status |-> IF outcome = "ok" THEN 1 ELSE 0,
                     on |-> "none"]
         /\ err' = IF outcome = "fail_err" THEN "Engine" ELSE err
         /\ IF outcome = "ok"
            THEN /\ fo' = [fo EXCEPT !.recorded = recorded,
                                     !.regions = NI_FindObjects(recorded, fo.ndim,
                                                                fo.max_label)]
                 /\ pc' = "build"
            ELSE /\ fo' = fo
                 /\ pc' = "exit"
    /\ UNCHANGED <<sat, tramp, arr, crashed, op, argi, loc, src, pre, ret, origin, cb, handle>>

\* the places where building the list can run out of memory: PyList_New,
\* or the tuple or a slice of entry k
BuildFailures(f) ==
    {"none", "list"} \cup
        (IF \E k \in 1..f.max_label : f.recorded[k].present THEN {"entry"} ELSE {})

FindObjectsBuild ==
    /\ ~crashed /\ op = "find_objects" /\ pc = "build"
    /\ \E fail \in BuildFailures(fo) :
         IF fail = "list"
         THEN /\ fo' = fo
              /\ err' = "Allocation"
         ELSE IF fail = "entry"
         THEN /\ fo' = [fo EXCEPT !.list = TRUE, !.refs = 1]
              /\ err' = "Allocation"
         ELSE /\ fo' = [fo EXCEPT !.list = TRUE, !.refs = 2,
                                  !.result = BuildResult(fo.regions, fo.ndim, fo.max_label)]
              /\ err' = err
    /\ pc' = "exit"
    /\ UNCHANGED <<sat, tramp, arr, crashed, op, argi, loc, src, pre, kern, ret, origin, cb, handle>>

\* Py_XDECREF(result)
DecrefResult(f) ==
    IF ~f.list THEN f
    ELSE IF f.refs = 0 THEN [f EXCEPT !.overfree = TRUE]
    ELSE [f EXCEPT !.refs = @ - 1]

FindObjectsExit ==
    /\ ~crashed /\ op = "find_objects" /\ pc = "exit"
    /\ arr' = ReleaseAll(arr, loc, ExitOrder("find_objects"))
    /\ fo' = IF err # "none" THEN DecrefResult(DecrefResult(fo)) ELSE DecrefResult(fo)
    /\ ret' = IF err # "none" \/ ~fo.list THEN "NULL" ELSE "list"
    /\ pc' = "done"
    /\ UNCHANGED <<sat, tramp, err, crashed, op, argi, loc, src, pre, kern, origin, cb, handle>>

Py_FindObjects ==
    \/ Enter("find_objects")
    \/ PyArg_ParseTuple("find_objects")
    \/ FindObjectsAlloc
    \/ FindObjectsKernel
    \/ FindObjectsBuild
    \/ FindObjectsExit

(* ------------------------------------------------------------------ *)
(* Py_BinaryErosion, Py_BinaryErosion2 and the capsule                 *)
(* ------------------------------------------------------------------ *)

\* the capsule destructor
FreeCoordinateList(hd) == [hd EXCEPT !.list = "none", !.ptr = "none"]

\* NI_BinaryErosion, then the capsule around the coordinate list.  The
\* caller of the model keeps one capsule at a time.
BinaryErosionKernel ==
    /\ ~crashed /\ op = "binary_erosion" /\ pc = "kernel"
    /\ \E return_coordinates \in BOOLEAN, outcome \in KernelOutcomes,
          w \in KernelWrites(arr, OutViews("binary_erosion", loc)) :
         LET k == NI_Kernel(arr, w, outcome, err)
         IN /\ return_coordinates => handle.cap = "none"
            /\ arr' = k.heap
            /\ err' = k.err
            /\ kern' = [ran |-> TRUE, status |-> k.status, on |-> "none"]
            /\ handle' = IF return_coordinates
                         THEN IF k.status = 1
                              THEN [handle EXCEPT !.arg = "return_coordinates",
                                                  !.cobj = "capsule", !.list = "live",
                                                  !.ptr = "coordinate_list"]
                              ELSE [handle EXCEPT !.arg = "return_coordinates"]
                         ELSE handle
    /\ pc' = "exit"
    /\ UNCHANGED <<sat, tramp, crashed, op, argi, loc, src, pre, ret, origin, cb, fo>>

BinaryErosionExit ==
    /\ ~crashed /\ op = "binary_erosion" /\ pc = "exit"
    /\ arr' = ReleaseAll(arr, loc, ExitOrder("binary_erosion"))
    /\ origin' = FreeSequence("binary_erosion", origin)
    /\ IF err # "none"
       THEN /\ handle' = IF handle.cobj = "capsule"
                         THEN [FreeCoordinateList(handle) EXCEPT !.cobj = "NULL"]
                         ELSE handle
            /\ ret' = "NULL"
       ELSE /\ handle' = handle
            /\ ret' = IF handle.arg = "return_coordinates"
                      THEN (IF handle.cobj = "NULL" THEN "NULL" ELSE "int+capsule")
                      ELSE "int"
    /\ pc' = "done"
    /\ UNCHANGED <<sat, tramp, err, crashed, op, argi, loc, src, pre, kern, cb, fo>>

Py_BinaryErosion ==
    \/ Enter("binary_erosion")
    \/ PyArg_ParseTuple("binary_erosion")
    \/ BinaryErosionKernel
    \/ BinaryErosionExit

\* what the caller can pass as cobj
CobjObjects(hd) ==
    {"foreign_capsule", "not_capsule"} \cup (IF hd.cap = "held" THEN {"handle"} ELSE {})

NpyCapsule_Check(cobj) == cobj \in {"handle", "foreign_capsule"}

\* NpyCapsule_AsVoidPtr(cobj)
NpyCapsule_AsVoidPtr(hd, cobj) == IF cobj = "handle" THEN hd.ptr ELSE "foreign_pointer"

\* what the kernel can leave in the pointer it was given the address of:
\* the list it got, or another one
KernelLeaves(p) == {p, "other_list"}

\* Py_BinaryErosion2 storing cobj_data back into the capsule after the call
AfterErosion2_StoresBack(hd, cobj, cobj_data) ==
    [hd EXCEPT !.arg = cobj, !.cobj_data = cobj_data,
               !.ptr = IF cobj = "handle" THEN cobj_data ELSE @]

\* the capsule after Py_BinaryErosion2 handed &cobj_data to the kernel:
\* the kernel wrote to the local, the capsule keeps its pointer
AfterErosion2(hd, cobj, cobj_data) ==
    [hd EXCEPT !.arg = cobj, !.cobj_data = cobj_data]

BinaryErosion2Body ==
    /\ ~crashed /\ op = "binary_erosion2" /\ pc = "kernel"
    /\ \E cobj \in CobjObjects(handle), outcome \in KernelOutcomes,
          w \in KernelWrites(arr, OutViews("binary_erosion2", loc)) :
         /\ IF NpyCapsule_Check(cobj)
            THEN LET k == NI_Kernel(arr, w, outcome, err)
                 IN /\ \E cobj_data \in KernelLeaves(NpyCapsule_AsVoidPtr(handle, cobj)) :
                         handle' = AfterErosion2(handle, cobj, cobj_data)
                    /\ arr' = k.heap
                    /\ err' = k.err
                    /\ kern' = [ran |-> TRUE, status |-> k.status,
                                on |-> IF cobj = "handle" THEN "coordinate_list"
                                       ELSE "foreign"]
            ELSE /\ handle' = AfterErosion2(handle, cobj, "NULL")
                 /\ arr' = arr
                 /\ err' = "InvalidHandle"
                 /\ kern' = kern
    /\ pc' = "exit"
    /\ UNCHANGED <<sat, tramp, crashed, op, argi, loc, src, pre, ret, origin, cb, fo>>

Py_BinaryErosion2 ==
    \/ Enter("binary_erosion2")
    \/ PyArg_ParseTuple("binary_erosion2")
    \/ BinaryErosion2Body
    \/ ExitNone("binary_erosion2")

\* the caller drops its capsule and the destructor runs
DropHandle ==
    /\ ~crashed /\ pc = "idle" /\ handle.cap = "held"
    /\ handle' = [FreeCoordinateList(handle) EXCEPT !.cap = "none"]
    /\ UNCHANGED <<sat, tramp, arr, err, crashed, op, pc, argi, loc, src, pre, kern, ret, origin,
                   cb, fo>>

\* the caller takes the result, handles the exception and goes on
Return ==
    /\ ~crashed /\ pc = "done"
    /\ arr' = [i \in ArrayIds |-> IF arr[i].st = "dead" THEN FreeSlot ELSE arr[i]]
    /\ err' = "none"
    /\ op' = "idle"
    /\ pc' = "idle"
    /\ argi' = 1
    /\ loc' = NoLocals
    /\ src' = NoLocals
    /\ pre' = arr'
    /\ kern' = NoKernel
    /\ ret' = "none"
    /\ origin' = NoOrigin
    /\ cb' = NoCallback
    /\ handle' = [handle EXCEPT !.cobj = "NULL", !.arg = "none", !.cobj_data = "NULL",
                                 !.cap = IF ret = "int+capsule" THEN "held" ELSE @]
    /\ fo' = NoFind
    /\ tramp' = NoTramp
    /\ UNCHANGED <<sat, crashed>>

Next ==
    \/ Py_Correlate1D
    \/ Py_Correlate
    \/ Py_UniformFilter1D
    \/ Py_MinOrMaxFilter1D
    \/ Py_MinOrMaxFilter
    \/ Py_RankFilter
    \/ Py_FourierFilter
    \/ Py_FourierShift
    \/ Py_SplineFilter1D
    \/ Py_ZoomShift
    \/ Py_WatershedIFT
    \/ Py_DistanceTransformBruteForce
    \/ Py_DistanceTransformOnePass
    \/ Py_EuclideanFeatureTransform
    \/ Py_GenericFilter1D
    \/ Py_GenericFilter
    \/ Py_GeometricTransform
    \/ CallFilter1DFunc
    \/ CallFilterFunc
    \/ CallMap
    \/ Py_FindObjects
    \/ Py_BinaryErosion
    \/ Py_BinaryErosion2
    \/ DropHandle
    \/ Return

Spec == Init /\ [][Next]_vars

(* ------------------------------------------------------------------ *)
(* satisfies on its own                                                *)
(* ------------------------------------------------------------------ *)

\* the requirement flags satisfies looks at
ReqFlags == {"NOTSWAPPED", "ALIGNED", "C_CONTIGUOUS", "WRITEABLE", "ENSURECOPY"}

\* element types of the array and of the request
SatTypes == {"NPY_DOUBLE", "NPY_LONG", "NPY_LONGLONG"}

\* every combination of the four array flags, for each element type
SatArrays ==
    {CallerArray(ty, "2x3", sw, al, co, wr) :
        ty \in SatTypes, sw \in BOOLEAN, al \in BOOLEAN, co \in BOOLEAN, wr \in BOOLEAN}

\* no wrapper is running; satisfies is about to be called on any array,
\* requirement set and type
InitSatisfies ==
    /\ arr = [i \in ArrayIds |->
                IF i = "A1" THEN CallerArray("NPY_DOUBLE", "2x3", FALSE, TRUE, TRUE, TRUE)
                ELSE IF i = "A2"
                THEN CallerArray("NPY_BOOL", "4", FALSE, FALSE, TRUE, TRUE)
                ELSE FreeSlot]
    /\ err = "none" /\ crashed = FALSE /\ op = "idle" /\ pc = "idle" /\ argi = 1
    /\ loc = NoLocals /\ src = NoLocals /\ pre = arr /\ kern = NoKernel
    /\ ret = "none" /\ origin = NoOrigin /\ cb = NoCallback /\ handle = NoHandle
    /\ fo = NoFind /\ tramp = NoTramp
    /\ \E a \in SatArrays, requirements \in SUBSET ReqFlags,
          t \in SatTypes \cup {"NPY_NOTYPE"} :
         sat = [a |-> a, requirements |-> requirements, t |-> t, result |-> -1]

\* the call returns
CallSatisfies ==
    /\ sat.result = -1
    /\ sat' = [sat EXCEPT !.result =
                  IF satisfies(sat.a, sat.requirements, sat.t) THEN 1 ELSE 0]
    /\ UNCHANGED <<arr, err, crashed, op, pc, argi, loc, src, pre, kern, ret, origin,
                   cb, handle, fo, tramp>>

SpecSatisfies == InitSatisfies /\ [][CallSatisfies]_vars

(* ------------------------------------------------------------------ *)
(* Properties                                                          *)
(* ------------------------------------------------------------------ *)

\* the argument positions of the running wrapper with a unit among kinds
Positions(kinds) ==
    IF op \in OpNames THEN {i \in 1..Len(Fmt(op)) : Fmt(op)[i] \in kinds} ELSE {}

\* a temporary exists, or existed in this call, for caller array a
ShadowFor(a) == \E s \in ShadowIds : arr[s].st # "free" /\ arr[s].base = a

\* position i is the first position of this call that array src[i] was passed at
FirstUse(i) == \A j \in 1..(i - 1) : src[j] # src[i]

\* C1: when a call fails, the temporary made for an output argument is
\* dropped without being copied into the caller's array, so that array
\* holds after the call what it held before.
C1_FailedCallLeavesOutput ==
    (pc = "done" /\ ret = "NULL") =>
        \A i \in Positions({"Out", "OptOut"}) :
            loc[i] \in ShadowIds => arr[src[i]].val = pre[src[i]].val

\* C2: whenever the kernel returned failure the wrapper returns failure,
\* whether or not the error indicator was set.
C2_KernelFailureReturned ==
    (pc = "done" /\ kern.ran /\ kern.status = 0) => ret = "NULL"

\* C3: a writable array that does not satisfy the request gets, as
\* input/output view, a temporary that starts with the array's contents;
\* after a kernel that succeeded and the release at exit the array holds
\* the final contents of the temporary.
C3_IoCopyBack ==
    \A i \in Positions({"Io"}) :
        (/\ src[i] \in CallerArrays
         /\ pre[src[i]].writable
         /\ ~satisfies(pre[src[i]], NI_Requires, "NPY_NOTYPE"))
        => /\ loc[i] \in ShadowIds
           /\ arr[loc[i]].base = src[i]
           /\ (pc \in {"parse", "prep", "kernel"} => arr[loc[i]].val = pre[src[i]].val)
           /\ (pc = "done" /\ kern.ran /\ kern.status = 1
                  => arr[src[i]].val = arr[loc[i]].val)

C3_Witness ==
    /\ op = "binary_erosion2" /\ pc = "done"
    /\ loc[1] \in ShadowIds /\ src[1] = "A1"
    /\ kern.ran /\ kern.status = 1
    /\ arr["A1"].val # pre["A1"].val

\* C4: an output argument that is an array in canonical writable layout is
\* returned itself: no temporary is made for it, nothing is to be copied
\* back, and it stays writable.
C4_ZeroCopyOutput ==
    \A i \in Positions({"Out", "OptOut"}) :
        (src[i] \in CallerArrays /\ PyArray_ISCARRAY(pre[src[i]]))
        => /\ loc[i] = src[i]
           /\ ~ShadowFor(src[i])
           /\ arr[src[i]].writable

C4_Witness ==
    /\ op = "correlate1d" /\ pc = "done"
    /\ src[4] = "A1" /\ loc[4] = "A1"
    /\ PyArray_ISCARRAY(pre["A1"])
    /\ kern.ran /\ arr["A1"].val # pre["A1"].val

\* C5: binary_erosion2 fails with the invalid-handle error, and does not
\* run the kernel, when cobj is not a capsule made by binary_erosion.
C5_ForeignHandleRejected ==
    (op = "binary_erosion2" /\ pc = "done"
        /\ handle.arg \in {"foreign_capsule", "not_capsule"})
    => (~kern.ran /\ err = "InvalidHandle" /\ ret = "NULL")

\* C6: on success find_objects returns a list of max(max_label, 0)
\* entries; entry i is the box the engine recorded for label i, one
\* start/end pair per dimension, and None when it recorded no voxels.
C6_FindObjectsResult ==
    (op = "find_objects" /\ pc = "done" /\ ret # "NULL") =>
        /\ ret = "list"
        /\ DOMAIN fo.result = 1..(IF fo.arg > 0 THEN fo.arg ELSE 0)
        /\ \A i \in DOMAIN fo.result :
              IF fo.recorded[i].present
              THEN /\ fo.result[i].present
                   /\ DOMAIN fo.result[i].box = 1..fo.ndim
                   /\ \A jj \in 1..fo.ndim :
                         fo.result[i].box[jj] = fo.recorded[i].box[jj]
              ELSE fo.result[i] = [present |-> FALSE, box |-> <<>>]

C6_Witness ==
    /\ op = "find_objects" /\ pc = "done" /\ ret = "list"
    /\ fo.arg = 2 /\ fo.ndim = 2
    /\ fo.result[1].present /\ ~fo.result[2].present
    /\ fo.result[1].box = <<<<0, 1>>, <<1, 3>>>>

\* C7: the sequence conversion hands over a buffer only when it succeeds,
\* reports an error when it returns failure, and never reads through the
\* array pointer when the conversion to an array gave none.
C7_SequenceConversionSafe ==
    /\ ~origin.nullAccess
    /\ (origin.len = -1 => ~origin.alloc /\ err # "none")
    /\ (origin.alloc /\ pc \in {"parse", "kernel"} => err = "none")

\* C8: the output view of a writable array that does not satisfy the
\* request is a new temporary of the same shape whose base is the array;
\* while the temporary lives the array is not writable, and after the copy
\* back the array holds the temporary's contents.
C8_ShadowRevokesWrite ==
    /\ \A s \in ShadowIds :
          (arr[s].st = "live" /\ arr[s].uic)
          => /\ arr[s].base \in CallerArrays
             /\ ~arr[arr[s].base].writable
             /\ arr[s].shape = arr[arr[s].base].shape
    /\ \A i \in Positions({"Out", "OptOut"}) :
          (/\ src[i] \in CallerArrays
           /\ FirstUse(i)
           /\ pre[src[i]].writable
           /\ ~satisfies(pre[src[i]], NI_Requires, "NPY_NOTYPE"))
          => /\ loc[i] \in ShadowIds
             /\ pre[loc[i]].st = "free"
             /\ arr[loc[i]].base = src[i]
             /\ (pc = "done" => arr[src[i]].val = arr[loc[i]].val)

C8_Witness ==
    /\ op = "watershed_ift" /\ pc = "kernel"
    /\ src[4] = "A1" /\ loc[4] \in ShadowIds
    /\ pre["A1"].writable /\ ~arr["A1"].writable
    /\ arr[loc[4]].st = "live"

\* the caller passed, at position i, something that cannot be written to
NotWritableSource(i) ==
    \/ src[i] \in CallerArrays /\ ~pre[src[i]].writable
    \/ src[i] = "list" /\ Fmt(op)[i] \in {"Out", "OptOut"}

\* C9: an output or input/output argument that is not writable (for an
\* output argument also one that is no array) is refused with the
\* not-writable error even when it satisfies the request otherwise: no
\* view is stored, nothing is to be copied back, the array is unchanged.
C9_NotWritableRejected ==
    \A i \in Positions(OutRoles) :
        NotWritableSource(i)
        => /\ loc[i] = "NULL"
           /\ pc \in {"exit", "done"} /\ argi = i
           /\ err = "NotWritable"
           /\ (pc = "done" => ret = "NULL")
           /\ (src[i] \in CallerArrays
                  => arr[src[i]] = pre[src[i]] /\ ~ShadowFor(src[i]))

C9_Witness ==
    /\ op = "binary_erosion2" /\ pc = "done"
    /\ src[1] = "A1" /\ ~pre["A1"].writable
    /\ satisfies(pre["A1"], NI_Requires, "NPY_NOTYPE")
    /\ err = "NotWritable" /\ ret = "NULL"

\* C10: an input/output argument that is writable and satisfies the
\* request is returned itself: no copy is made, nothing is to be copied
\* back.
C10_IoAliasWhenCompliant ==
    \A i \in Positions({"Io"}) :
        (/\ src[i] \in CallerArrays
         /\ pre[src[i]].writable
         /\ satisfies(pre[src[i]], NI_Requires, "NPY_NOTYPE"))
        => loc[i] = src[i] /\ ~ShadowFor(src[i])

C10_Witness ==
    /\ op = "distance_transform_op" /\ pc = "done"
    /\ src[2] = "A1" /\ loc[2] = "A1"
    /\ pre["A1"].writable /\ ~pre["A1"].contig
    /\ kern.ran /\ arr["A1"].val # pre["A1"].val

\* the flag of array a that requirement flag f asks for
FlagHolds(a, f) ==
    CASE f = "NOTSWAPPED" -> ~a.swapped
      [] f = "ALIGNED" -> a.aligned
      [] f = "C_CONTIGUOUS" -> a.contig
      [] f = "WRITEABLE" -> a.writable

\* C11: satisfies(a, requirements, t) is true exactly when t is the "any"
\* type or equivalent to a's type, and a is in canonical layout or every
\* requested flag among no-byteswap, aligned, contiguous, writable holds of
\* a and a forced copy was not requested.
C11_SatisfiesClosedForm ==
    sat.result # -1 =>
        ((sat.result = 1) <=>
            /\ (sat.t = "NPY_NOTYPE" \/ PyArray_EquivTypenums(sat.a.type, sat.t))
            /\ \/ (sat.a.contig /\ sat.a.aligned /\ sat.a.writable /\ ~sat.a.swapped)
               \/ /\ \A f \in sat.requirements \ {"ENSURECOPY"} : FlagHolds(sat.a, f)
                  /\ "ENSURECOPY" \notin sat.requirements)

C11_Witness ==
    /\ sat.result = 1
    /\ sat.a.contig /\ sat.a.aligned /\ sat.a.writable /\ ~sat.a.swapped
    /\ "ENSURECOPY" \in sat.requirements
    /\ sat.a.type = "NPY_LONG" /\ sat.t = "NPY_LONGLONG"

\* C12: a trampoline returns failure to the kernel whenever the callable
\* raised, whenever the result of a coordinate mapping does not have
\* exactly input-rank elements, and whenever a returned value or
\* coordinate is no number.
C12_TrampolineFailureStatus ==
    \A k \in DOMAIN tramp :
        LET c == tramp[k]
        IN (/\ c.called
            /\ \/ c.rv.kind = "raise"
               \/ c.fn = "Py_Map" /\ Len(c.rv.items) # c.irank
               \/ /\ c.fn \in {"Py_FilterFunc", "Py_Map"}
                  /\ \E i \in DOMAIN c.rv.items : ~IsNumber(c.rv.items[i]))
           => c.status = 0

\* the arguments a trampoline builds from the data the kernel hands it
NativeArgs(fn) ==
    CASE fn = "Py_Filter1DFunc" -> <<"py_ibuffer", "py_obuffer">>
      [] fn = "Py_FilterFunc" -> <<"py_buffer">>
      [] fn = "Py_Map" -> <<"coors">>

\* C13: every call of the callable gets the native window or coordinate
\* data followed by the caller's extra positional arguments in their
\* order, and the caller's extra named arguments; the same extras on the
\* first and on every later call.
C13_CallableArguments ==
    \A k \in DOMAIN tramp :
        tramp[k].called =>
            /\ cb.extra_arguments = "tuple" /\ cb.extra_keywords = "dict"
            /\ tramp[k].args = NativeArgs(tramp[k].fn) \o <<"x", "y">>
            /\ tramp[k].kwargs = {"k"}
            /\ SubSeq(tramp[k].args, Len(NativeArgs(tramp[k].fn)) + 1, Len(tramp[k].args))
                  = cb.cbdata.extra_arguments.items
            /\ tramp[k].kwargs = cb.cbdata.extra_keywords.keys

C13_Witness ==
    /\ Len(tramp) = 2
    /\ tramp[1].called /\ tramp[2].called
    /\ tramp[2].fn = "Py_Filter1DFunc"
    /\ tramp[2].args = <<"py_ibuffer", "py_obuffer", "x", "y">>

\* the caller's callback arguments cannot be used: a container of the
\* wrong kind, or a callable that matches no signature
BadCallbackArguments ==
    \/ cb.extra_arguments # "tuple"
    \/ cb.extra_keywords # "dict"
    \/ cb.fnc = "unmatched"

\* neither the kernel nor the callable ran and the call fails with the
\* callback error
FailedBeforeKernel ==
    /\ ~kern.ran /\ tramp = <<>>
    /\ err = "Callback"
    /\ pc \in {"exit", "done"}
    /\ (pc = "done" => ret = "NULL")

\* C14: generic_filter1d, generic_filter and geometric_transform fail with
\* the callback error, running neither kernel nor callable, when
\* extra_arguments is no tuple, extra_keywords is no dict, or the callable
\* matches no entry of the signature catalogue.
C14_BadCallbackRejected ==
    (op \in CallbackOps /\ cb.fnc # "NULL" /\ BadCallbackArguments)
    => FailedBeforeKernel

\* C14 as amended: the same, when a callable was supplied (fnc is not None)
C14_BadCallbackRejectedWithCallable ==
    (op \in CallbackOps /\ cb.fnc \notin {"NULL", "Py_None"} /\ BadCallbackArguments)
    => FailedBeforeKernel

C14_Witness ==
    /\ op = "geometric_transform" /\ pc = "done"
    /\ cb.fnc = "callable" /\ cb.extra_arguments = "list"
    /\ err = "Callback" /\ ret = "NULL" /\ ~kern.ran

\* C15: the callback resolved by a successful ccallback_prepare is released
\* exactly once on every exit path, and nothing is released when
\* ccallback_prepare was not run or failed.
C15_ReleaseOnce ==
    op \in CallbackOps =>
        /\ (pc = "done" => cb.released = IF cb.prepared = "ok" THEN 1 ELSE 0)
        /\ (pc # "done" => cb.released = 0)

C15_Witness ==
    /\ op \in CallbackOps /\ pc = "done"
    /\ cb.prepared = "ok" /\ cb.released = 1
    /\ tramp # <<>> /\ tramp[Len(tramp)].status = 0
    /\ kern.ran /\ kern.status = 0

\* every array argument, the integer sequence and the callback of the
\* running wrapper were converted or prepared with success
AllConverted ==
    /\ \A i \in 1..Len(Fmt(op)) :
          /\ Fmt(op)[i] \in {"In", "Out", "Io"} => loc[i] # "NULL"
          /\ Fmt(op)[i] \in {"OptIn", "OptOut"} => loc[i] # "NULL" \/ src[i] = "Py_None"
          /\ Fmt(op)[i] = "Seq" => origin.alloc /\ ~origin.nullAccess
    /\ op \in CallbackOps =>
          \/ cb.prepared = "ok"
          \/ cb.fnc = "legacy_capsule" /\ ~BadCallbackArguments
          \/ cb.fnc = "Py_None"

\* C16: the kernel is invoked only after every array argument, integer
\* sequence and callback was converted or prepared with success; when a
\* conversion or the preparation fails the kernel is never invoked and the
\* operation returns failure.
C16_KernelAfterConversions ==
    op \in OpNames =>
        /\ (kern.ran \/ tramp # <<>>) => AllConverted
        /\ (pc = "done" /\ ~AllConverted) => (~kern.ran /\ ret = "NULL")

\* C17: within one call each output or input/output argument that needs a
\* temporary has a temporary of its own, and when the operation returns
\* every temporary has been released and copied into its array.
C17_IndependentShadows ==
    /\ \A i \in Positions(OutRoles) :
          loc[i] \in ShadowIds =>
              /\ arr[loc[i]].base = src[i]
              /\ \A j \in Positions(OutRoles) \ {i} : loc[j] # loc[i]
              /\ (pc = "done" => arr[src[i]].val = arr[loc[i]].val)
    /\ pc = "done" => \A s \in ShadowIds : arr[s].st # "live"

C17_Witness ==
    /\ op = "distance_transform_bf" /\ pc = "done"
    /\ loc[4] \in ShadowIds /\ loc[5] \in ShadowIds
    /\ loc[4] # loc[5] /\ src[4] # src[5]
    /\ arr[loc[4]].st = "dead" /\ arr[loc[5]].st = "dead"

\* the running wrapper takes an integer sequence
TakesSequence == op \in OpNames /\ \E i \in 1..Len(Fmt(op)) : Fmt(op)[i] = "Seq"

\* C18: the integer array made by the sequence conversion is released
\* exactly once on every exit path, not before the kernel has returned,
\* and nothing is released when no array was made.
C18_SequenceFreedOnce ==
    TakesSequence =>
        /\ (pc = "done" => origin.frees = IF origin.alloc THEN 1 ELSE 0)
        /\ (pc # "done" => origin.frees = 0)

C18_Witness ==
    /\ op = "binary_erosion2" /\ pc = "done"
    /\ origin.alloc /\ ~origin.nullAccess /\ origin.frees = 1
    /\ kern.ran /\ kern.status = 0

\* C19: on every exit path of find_objects the result list is released no
\* more often than references to it are held, and on success the caller
\* gets exactly one reference.
C19_ResultListReferences ==
    /\ ~fo.overfree
    /\ (op = "find_objects" /\ pc = "done" /\ ret = "list") => fo.refs = 1

\* C20: when one writable array that does not satisfy the request is
\* passed for two output arguments of a call, the second conversion fails
\* with the not-writable error, the kernel is not invoked and the
\* operation returns failure.
C20_SameArrayTwice ==
    \A i \in Positions(OutRoles) : \A j \in Positions(OutRoles) :
        (/\ i < j
         /\ src[i] \in CallerArrays /\ src[j] = src[i]
         /\ pre[src[i]].writable
         /\ ~satisfies(pre[src[i]], NI_Requires, "NPY_NOTYPE"))
        => /\ loc[i] \in ShadowIds
           /\ loc[j] = "NULL"
           /\ err = "NotWritable"
           /\ ~kern.ran
           /\ pc \in {"exit", "done"}
           /\ (pc = "done" => ret = "NULL")

C20_Witness ==
    /\ op = "distance_transform_bf" /\ pc = "done"
    /\ src[4] = "A2" /\ src[5] = "A2"
    /\ loc[4] \in ShadowIds /\ loc[5] = "NULL"
    /\ err = "NotWritable" /\ ret = "NULL"

\* C21: when an operation has returned, with success or failure, every
\* caller array passed as output or input/output argument has the
\* writable flag it had before the call.
C21_WritableFlagRestored ==
    pc = "done" =>
        \A i \in Positions(OutRoles) :
            src[i] \in CallerArrays => arr[src[i]].writable = pre[src[i]].writable

C21_Witness ==
    /\ op = "correlate1d" /\ pc = "done" /\ ret = "NULL"
    /\ src[4] = "A1" /\ loc[4] \in ShadowIds
    /\ pre["A1"].writable /\ arr["A1"].writable

\* C22: binary_erosion2 never rebinds the capsule: the kernel works on a
\* local copy of the capsule's pointer, so in every step of the call the
\* capsule keeps its pointer, its coordinate list and its owner; and the
\* coordinate list is freed only by the destructor registered when
\* binary_erosion made the capsule, as the capsule is destroyed.
C22_HandleNotRebound ==
    [][/\ op = "binary_erosion2" =>
             /\ handle'.ptr = handle.ptr
             /\ handle'.list = handle.list
             /\ handle'.cap = handle.cap
       /\ (handle.list = "live" /\ handle'.list # "live") =>
             \/ handle.cap = "held" /\ handle'.cap = "none"
             \/ handle.cobj = "capsule" /\ handle'.cobj = "NULL"]_vars

C22_Witness ==
    /\ op = "binary_erosion2" /\ pc = "done"
    /\ handle.arg = "handle" /\ kern.ran /\ kern.on = "coordinate_list"
    /\ handle.cobj_data = "other_list"
    /\ handle.ptr = "coordinate_list" /\ handle.list = "live" /\ handle.cap = "held"

====
